---- MODULE Spec2Model ----
(***************************************************************************)
(* VisiFruit native launcher (Extras/visifruit_launcher_cpp.cpp).          *)
(*                                                                         *)
(* The launcher is one window procedure driven by one message loop.  The   *)
(* model has one action per message the window procedure handles           *)
(* (WM_COMMAND, WM_TIMER, WM_CTLCOLORSTATIC, WM_CLOSE), one for each       *)
(* return of a modal MessageBox, and the start-up and shut-down steps of   *)
(* WinMain.  Every call a handler makes to the operating system is         *)
(* recorded, in call order, in last.calls.                                 *)
(***************************************************************************)
EXTENDS Integers, Sequences, FiniteSets

(***************************************************************************)
(* Bounds of the model.                                                    *)
(***************************************************************************)
\* lines the log text box may hold before the logging handlers are disabled
MaxLog == 4
\* the same, in the runs in which only start-all and stop-all are pressed
MaxLogStartStop == 6
\* the same, in the runs in which only the four start buttons are pressed
MaxLogStart == 5

(***************************************************************************)
(* Program constants.                                                      *)
(***************************************************************************)
ID_START_ALL == 1001
ID_STOP_ALL == 1002
ID_START_BACKEND == 1003
ID_START_FRONTEND == 1004
ID_START_SYSTEM == 1005
ID_OPEN_FRONTEND == 1006
ID_OPEN_BACKEND == 1007
ID_OPEN_SYSTEM == 1008
ID_LOGS_TEXTBOX == 1009
TIMER_STATUS_UPDATE == 2001
\* the browser timer has no name in the source: SetTimer(hwnd, 3001, 8000, NULL)
TIMER_OPEN_BROWSER == 3001
STATUS_PERIOD_MS == 3000
BROWSER_DELAY_MS == 8000
PORT_BACKEND == 8001
PORT_FRONTEND == 3000
PORT_SYSTEM == 8000

RGB_GREEN == <<76, 175, 80>>
RGB_RED == <<244, 67, 54>>
RGB_WHITE == <<255, 255, 255>>
RGB_BACKGROUND == <<43, 43, 43>>

Services == {"backend", "frontend", "system"}

\* the command identifiers a WM_COMMAND can carry: the eight buttons, the
\* edit control (it notifies its parent with its own identifier) and 0
CommandIds == (ID_START_ALL .. ID_LOGS_TEXTBOX) \cup {0}

\* the static controls that ask for their colour
StaticControls == {"hStatusBackend", "hStatusFrontend", "hStatusSystem", "hOtherStatic"}

\* local time of day at which the launcher is started, in seconds: 09:59:59
StartWall == 9 * 3600 + 59 * 60 + 59

VARIABLES
    phase,          \* position of WinMain
    initResults,    \* <<what RegisterClassEx returned, what CreateWindowEx returned>>
    modal,          \* the MessageBox the window procedure is blocked in
    serviceStatus,  \* std::map<std::string, bool> serviceStatus
    lastProbe,      \* what the latest CheckPort of each port returned
    processes,      \* std::vector<PROCESS_INFORMATION> processes
    children,       \* process handles ShellExecuteEx gave to the start actions
    terminated,     \* process handles passed to TerminateProcess
    logText,        \* text of the log edit control, as a sequence of tokens
    timers,         \* armed timers of the window: id -> milliseconds left
    quitMsg,        \* <<wParam>> of the posted WM_QUIT, <<>> when none is posted
    exitCode,       \* <<value WinMain returned>>, <<>> while it runs
    last,           \* the step taken last: message, parameter, OS calls made
    logLimit        \* lines the log may hold in this run (a bound of the model)

vars == <<phase, initResults, modal, serviceStatus, lastProbe, processes, children,
          terminated, logText, timers, quitMsg, exitCode, last, logLimit>>

(***************************************************************************)
(* Log view: AddLog.                                                       *)
(***************************************************************************)
DigitChars == <<"0", "1", "2", "3", "4", "5", "6", "7", "8", "9">>

RECURSIVE Decimal(_)
\* operator<< of a non-negative int: its decimal digits, no padding
Decimal(n) ==
    IF n < 10 THEN <<DigitChars[n + 1]>>
    ELSE Decimal(n \div 10) \o <<DigitChars[(n % 10) + 1]>>

\* std::setfill(L'0') << std::setw(2) << n: pad on the left to width 2
SetW2(n) ==
    LET d == Decimal(n)
    IN  IF Len(d) < 2 THEN <<"0">> \o d ELSE d

\* std::localtime: the fields of the time of day
TmHour(t) == (t \div 3600) % 24
TmMin(t) == (t \div 60) % 60
TmSec(t) == t % 60

\* the stream AddLog builds: "[HH:MM:SS] " message "\r\n"
FormatLine(t, message) ==
    <<"[">> \o SetW2(TmHour(t)) \o <<":">> \o SetW2(TmMin(t)) \o <<":">>
        \o SetW2(TmSec(t)) \o <<"] ">> \o message \o <<"\r\n">>

\* EM_SETSEL(from, to) followed by EM_REPLACESEL(s) on an edit control
ReplaceSel(text, from, to, s) ==
    SubSeq(text, 1, from) \o s \o SubSeq(text, to + 1, Len(text))

\* number of lines in the log control
LineCount(text) == Cardinality({i \in DOMAIN text : text[i] = "\r\n"})

\* std::chrono::system_clock::now() as AddLog reads it: in the runs of this
\* model a second passes between one reading of the clock and the next
SystemClockNow(text) == StartWall + LineCount(text)

\* an AddLog that selects the whole text before it replaces the selection
AddLogOverwriting(text, message) ==
    LET now == SystemClockNow(text)
        len == Len(text)
    IN  ReplaceSel(text, 0, len, FormatLine(now, message))

\* AddLog: the text of the log control after logging message
AddLog(text, message) ==
    LET now == SystemClockNow(text)
        len == Len(text)   \* GetWindowTextLength
    IN  ReplaceSel(text, len, len, FormatLine(now, message))

\* room for n more lines (the bound of the model, not of the program)
CanLog(n) == LineCount(logText) + n <= logLimit

(***************************************************************************)
(* Log messages.  A message is the sequence of the pieces the source       *)
(* concatenates; the first piece stands for the leading emoji.             *)
(***************************************************************************)
MsgLauncherStarted == <<"(rocket)", " VisiFruit Launcher (C++ Native) iniciado">>
MsgStartingAll == <<"(rocket)", " Iniciando sistema completo...">>
MsgMarkerMissing == <<"(cross)", " Error: No se encuentra main_etiquetadora.py">>
MsgAllStarted == <<"(check)", " Sistema completo iniciado">>
MsgAllFailed == <<"(cross)", " Error iniciando sistema completo">>
MsgStoppingAll == <<"(stop)", " Deteniendo todos los servicios...">>
MsgAllStopped == <<"(check)", " Servicios detenidos">>
MsgStarting(service) == <<"(wrench)", " Iniciando ", service, "...">>
MsgStarted(service) == <<"(check)", " ", service, " iniciado">>
\* a failure reported with the line of a success
MsgStartFailedAsStarted(service) == <<"(check)", " ", service, " iniciado">>
MsgStartFailed(service) == <<"(cross)", " Error iniciando ", service>>
MsgOpened(url) == <<"(globe)", " Abierto: ", url>>

(***************************************************************************)
(* Operating system calls, as recorded in last.calls.                      *)
(***************************************************************************)
CallAddLog(message) == [op |-> "AddLog", message |-> message]
CallMessageBox(owner, type) == [op |-> "MessageBox", owner |-> owner, type |-> type]
CallMessageBoxReturn(ret) == [op |-> "MessageBoxReturn", ret |-> ret]
CallShellExecuteEx(file, params, ok) ==
    [op |-> "ShellExecuteEx", file |-> file, params |-> params, ok |-> ok]
CallGetFileAttributes(file, found) ==
    [op |-> "GetFileAttributes", file |-> file, found |-> found]
CallShellExecute(file) == [op |-> "ShellExecute", file |-> file]
CallSetTimer(id, ms) == [op |-> "SetTimer", id |-> id, ms |-> ms]
CallKillTimer(id) == [op |-> "KillTimer", id |-> id]
CallCheckPort(port, ret) == [op |-> "CheckPort", port |-> port, ret |-> ret]
CallInvalidateRect(control) == [op |-> "InvalidateRect", control |-> control]
CallSetTextColor(rgb) == [op |-> "SetTextColor", rgb |-> rgb]
CallSetBkColor(rgb) == [op |-> "SetBkColor", rgb |-> rgb]
CallDestroyWindow == [op |-> "DestroyWindow"]
CallPostQuitMessage(code) == [op |-> "PostQuitMessage", code |-> code]
CallTerminateProcess(h) == [op |-> "TerminateProcess", h |-> h]

Step(msg, wParam, calls) == [msg |-> msg, wParam |-> wParam, calls |-> calls]

\* the calls of a step that are calls of op
CallsOf(calls, op) == SelectSeq(calls, LAMBDA c : c.op = op)

(***************************************************************************)
(* Timers of the window.                                                   *)
(***************************************************************************)
\* a SetTimer that leaves a timer that is armed already as it is
SetTimerKeepingDeadline(t, id, ms) ==
    [i \in (DOMAIN t) \cup {id} |->
        IF i \in DOMAIN t THEN t[i] ELSE [elapse |-> ms, left |-> ms]]

\* SetTimer(hwnd, id, ms, NULL): arms the timer, or re-arms it when it is armed
SetTimer(t, id, ms) ==
    [i \in (DOMAIN t) \cup {id} |->
        IF i = id THEN [elapse |-> ms, left |-> ms] ELSE t[i]]
\* KillTimer(hwnd, id)
KillTimer(t, id) == [i \in (DOMAIN t) \ {id} |-> t[i]]
NoTimers == [i \in {} |-> [elapse |-> 0, left |-> 0]]
\* DestroyWindow(hwnd): the timers of the window are destroyed with it
DestroyTimers(t) == NoTimers
\* a timer is due when its time has run out; WM_TIMER is posted no earlier
Due(t, id) == id \in DOMAIN t /\ t[id].left = 0
\* the timer is periodic: when its WM_TIMER is taken it starts over
Restarted(t, id) == [t EXCEPT ![id].left = t[id].elapse]
\* the times the running timers have left
Running(t) == {t[i].left : i \in {j \in DOMAIN t : t[j].left > 0}}
\* the time until the next running timer runs out
NextDeadline(t) == CHOOSE ms \in Running(t) : \A other \in Running(t) : ms <= other
\* ms milliseconds pass
Elapsed(t, ms) ==
    [i \in DOMAIN t |->
        [t[i] EXCEPT !.left = IF t[i].left > ms THEN t[i].left - ms ELSE 0]]
NoProbes == [p \in {} |-> FALSE]

TypeOK ==
    /\ phase \in {"constructed", "initError", "running", "quitPosted", "returned", "exited"}
    /\ initResults \in {<<>>} \cup (BOOLEAN \X BOOLEAN)
    /\ modal \in {"none", "markerError", "closeConfirm"}
    /\ serviceStatus \in [Services -> BOOLEAN]
    /\ DOMAIN timers \subseteq {TIMER_STATUS_UPDATE, TIMER_OPEN_BROWSER}
    /\ logLimit \in Nat
    /\ LineCount(logText) <= logLimit

(***************************************************************************)
(* WinMain: construction, Initialize.                                      *)
(***************************************************************************)
\* the state after VisiFruitLauncher launcher; in WinMain
Constructed ==
    /\ phase = "constructed"
    /\ initResults = <<>>
    /\ modal = "none"
    /\ serviceStatus = [s \in Services |-> FALSE]
    /\ lastProbe = NoProbes
    /\ processes = <<>>
    /\ children = {}
    /\ terminated = {}
    /\ logText = <<>>
    /\ timers = NoTimers
    /\ quitMsg = <<>>
    /\ exitCode = <<>>
    /\ last = Step("none", 0, <<>>)

Init ==
    /\ Constructed
    /\ logLimit = MaxLog

\* an Initialize that does not check what CreateWindowEx returned
InitializeSucceedsUnchecked(registered, created) ==
    IF ~registered THEN FALSE
    ELSE TRUE

\* what Initialize returns: false when RegisterClassEx or CreateWindowEx fails
InitializeSucceeds(registered, created) ==
    IF ~registered THEN FALSE
    ELSE IF ~created THEN FALSE
    ELSE TRUE

\* launcher.Initialize(hInstance), and on failure the MessageBox of WinMain
Initialize(registered, created) ==
    /\ phase = "constructed"
    /\ initResults' = <<registered, created>>
    /\ IF InitializeSucceeds(registered, created)
       THEN /\ phase' = "running"
            /\ timers' = SetTimer(timers, TIMER_STATUS_UPDATE, STATUS_PERIOD_MS)
            /\ logText' = AddLog(logText, MsgLauncherStarted)
            /\ last' = Step("Initialize", 0,
                    <<CallSetTimer(TIMER_STATUS_UPDATE, STATUS_PERIOD_MS),
                      CallAddLog(MsgLauncherStarted)>>)
       ELSE /\ phase' = "initError"
            /\ last' = Step("Initialize", 0, <<CallMessageBox("NULL", "MB_OK")>>)
            /\ UNCHANGED <<timers, logText>>
    /\ UNCHANGED <<modal, serviceStatus, lastProbe, processes, children, terminated,
                   quitMsg, exitCode, logLimit>>

\* the user dismisses the error dialog of WinMain: return 1
InitErrorDismissed ==
    /\ phase = "initError"
    /\ phase' = "returned"
    /\ exitCode' = <<1>>
    /\ last' = Step("MessageBoxReturn", 0, <<CallMessageBoxReturn("IDOK")>>)
    /\ UNCHANGED <<initResults, modal, serviceStatus, lastProbe, processes, children,
                   terminated, logText, timers, quitMsg, logLimit>>

(***************************************************************************)
(* Port prober and status poller.                                          *)
(***************************************************************************)
\* what can happen to one probe: InternetOpen fails, InternetOpenUrl fails,
\* or the URL opens
ProbeOutcomes == {"InternetOpenFailed", "InternetOpenUrlFailed", "Opened"}

\* CheckPort(port): true exactly when InternetOpenUrl returned a handle
CheckPort(port, outcome) ==
    IF outcome = "InternetOpenFailed" THEN FALSE
    ELSE outcome = "Opened"

\* a poller that stores the probe of 8000 under "frontend" as well
PolledStatusCrossed(backend, frontend, system) ==
    [s \in Services |->
        CASE s = "backend" -> backend
          [] s = "frontend" -> system
          [] s = "system" -> system]

\* the three assignments of UpdateServiceStatus
PolledStatus(backend, frontend, system) ==
    [s \in Services |->
        CASE s = "backend" -> backend
          [] s = "frontend" -> frontend
          [] s = "system" -> system]

\* a cycle that probes 8000 before 3000
PollCallsSystemFirst(backend, frontend, system) ==
    <<CallCheckPort(PORT_BACKEND, backend),
      CallCheckPort(PORT_SYSTEM, system),
      CallCheckPort(PORT_FRONTEND, frontend),
      CallInvalidateRect("hStatusBackend"),
      CallInvalidateRect("hStatusFrontend"),
      CallInvalidateRect("hStatusSystem")>>

\* the calls of one poll cycle, in the order UpdateServiceStatus makes them:
\* each CheckPort returns before the next one is called
PollCalls(backend, frontend, system) ==
    <<CallCheckPort(PORT_BACKEND, backend),
      CallCheckPort(PORT_FRONTEND, frontend),
      CallCheckPort(PORT_SYSTEM, system),
      CallInvalidateRect("hStatusBackend"),
      CallInvalidateRect("hStatusFrontend"),
      CallInvalidateRect("hStatusSystem")>>

\* a poll cycle that logs an error line when a probe has failed
UpdateServiceStatusReportingFailures ==
    \E o1, o2, o3 \in ProbeOutcomes :
        LET r1 == CheckPort(PORT_BACKEND, o1)
            r2 == CheckPort(PORT_FRONTEND, o2)
            r3 == CheckPort(PORT_SYSTEM, o3)
            message == <<"(cross)", " Servicio no disponible">>
        IN  /\ serviceStatus' = PolledStatus(r1, r2, r3)
            /\ lastProbe' = [p \in {PORT_BACKEND, PORT_FRONTEND, PORT_SYSTEM} |->
                                CASE p = PORT_BACKEND -> r1
                                  [] p = PORT_FRONTEND -> r2
                                  [] p = PORT_SYSTEM -> r3]
            /\ timers' = Restarted(timers, TIMER_STATUS_UPDATE)
            /\ IF (r1 /\ r2 /\ r3) \/ ~CanLog(1)
               THEN /\ logText' = logText
                    /\ last' = Step("WM_TIMER", TIMER_STATUS_UPDATE, PollCalls(r1, r2, r3))
               ELSE /\ logText' = AddLog(logText, message)
                    /\ last' = Step("WM_TIMER", TIMER_STATUS_UPDATE,
                            PollCalls(r1, r2, r3) \o <<CallAddLog(message)>>)
            /\ UNCHANGED <<phase, initResults, modal, processes, children, terminated,
                           quitMsg, exitCode, logLimit>>

\* UpdateServiceStatus, run by HandleTimer(TIMER_STATUS_UPDATE)
UpdateServiceStatus ==
    \E o1, o2, o3 \in ProbeOutcomes :
        LET r1 == CheckPort(PORT_BACKEND, o1)
            r2 == CheckPort(PORT_FRONTEND, o2)
            r3 == CheckPort(PORT_SYSTEM, o3)
        IN  /\ serviceStatus' = PolledStatus(r1, r2, r3)
            /\ lastProbe' = [p \in {PORT_BACKEND, PORT_FRONTEND, PORT_SYSTEM} |->
                                CASE p = PORT_BACKEND -> r1
                                  [] p = PORT_FRONTEND -> r2
                                  [] p = PORT_SYSTEM -> r3]
            /\ timers' = Restarted(timers, TIMER_STATUS_UPDATE)
            /\ last' = Step("WM_TIMER", TIMER_STATUS_UPDATE, PollCalls(r1, r2, r3))
            /\ UNCHANGED <<phase, initResults, modal, processes, children, terminated,
                           logText, quitMsg, exitCode, logLimit>>

(***************************************************************************)
(* URL opening.                                                            *)
(***************************************************************************)
URL_FRONTEND == "http://localhost:3000"
URL_BACKEND_DOCS == "http://localhost:8001/api/docs"
URL_SYSTEM == "http://localhost:8000"

\* the calls of OpenURL(url)
OpenURLCalls(url) == <<CallShellExecute(url), CallAddLog(MsgOpened(url))>>

\* a handler of the browser timer that does not kill it
AfterBrowserTimerLeftArmed(t) == t

\* the timers after HandleTimer has handled the browser timer: KillTimer(hwnd, 3001)
AfterBrowserTimer(t) == KillTimer(t, TIMER_OPEN_BROWSER)

\* HandleTimer(3001): open the frontend in the browser, once
OpenBrowserTimer ==
    /\ CanLog(1)
    /\ logText' = AddLog(logText, MsgOpened(URL_FRONTEND))
    /\ timers' = AfterBrowserTimer(Restarted(timers, TIMER_OPEN_BROWSER))
    /\ last' = Step("WM_TIMER", TIMER_OPEN_BROWSER,
            OpenURLCalls(URL_FRONTEND) \o <<CallKillTimer(TIMER_OPEN_BROWSER)>>)
    /\ UNCHANGED <<phase, initResults, modal, serviceStatus, lastProbe, processes,
                   children, terminated, quitMsg, exitCode, logLimit>>

\* WM_TIMER: HandleTimer(wParam).  A modal MessageBox runs its own message
\* loop, which dispatches the window's timer messages as well.
HandleTimer(timerId) ==
    /\ phase = "running"
    /\ Due(timers, timerId)
    /\ CASE timerId = TIMER_STATUS_UPDATE -> UpdateServiceStatus
         [] timerId = TIMER_OPEN_BROWSER -> OpenBrowserTimer
         [] OTHER -> /\ timers' = Restarted(timers, timerId)
                     /\ last' = Step("WM_TIMER", timerId, <<>>)
                     /\ UNCHANGED <<phase, initResults, modal, serviceStatus, lastProbe,
                                    processes, children, terminated, logText,
                                    quitMsg, exitCode, logLimit>>

(***************************************************************************)
(* Process launcher.                                                       *)
(***************************************************************************)
\* the handle ShellExecuteEx returns in sei.hProcess (SEE_MASK_NOCLOSEPROCESS)
NewChild(file) == [hProcess |-> Cardinality(children) + 1, file |-> file]

\* a marker check with the comparison inverted
MarkerMissingInverted(markerPresent) == markerPresent

\* GetFileAttributes(L"main_etiquetadora.py") == INVALID_FILE_ATTRIBUTES
MarkerMissing(markerPresent) == ~markerPresent

\* StartCompleteSystem; markerPresent is what GetFileAttributes finds,
\* launched is what ShellExecuteEx returns
StartCompleteSystem(markerPresent, launched) ==
    /\ CanLog(2)
    /\ IF MarkerMissing(markerPresent)
       THEN /\ logText' = AddLog(AddLog(logText, MsgStartingAll),
                                 MsgMarkerMissing)
            /\ modal' = "markerError"
            /\ last' = Step("WM_COMMAND", ID_START_ALL,
                    <<CallAddLog(MsgStartingAll),
                      CallGetFileAttributes("main_etiquetadora.py", markerPresent),
                      CallAddLog(MsgMarkerMissing),
                      CallMessageBox("hwnd", "MB_OK")>>)
            /\ UNCHANGED <<timers, children>>
       ELSE IF launched
       THEN /\ logText' = AddLog(AddLog(logText, MsgStartingAll),
                                 MsgAllStarted)
            /\ timers' = SetTimer(timers, TIMER_OPEN_BROWSER, BROWSER_DELAY_MS)
            /\ children' = children \cup {NewChild("start_sistema_completo.bat")}
            /\ last' = Step("WM_COMMAND", ID_START_ALL,
                    <<CallAddLog(MsgStartingAll),
                      CallGetFileAttributes("main_etiquetadora.py", markerPresent),
                      CallShellExecuteEx("start_sistema_completo.bat", <<>>, TRUE),
                      CallAddLog(MsgAllStarted),
                      CallSetTimer(TIMER_OPEN_BROWSER, BROWSER_DELAY_MS)>>)
            /\ UNCHANGED modal
       ELSE /\ logText' = AddLog(AddLog(logText, MsgStartingAll),
                                 MsgAllFailed)
            /\ last' = Step("WM_COMMAND", ID_START_ALL,
                    <<CallAddLog(MsgStartingAll),
                      CallGetFileAttributes("main_etiquetadora.py", markerPresent),
                      CallShellExecuteEx("start_sistema_completo.bat", <<>>, FALSE),
                      CallAddLog(MsgAllFailed)>>)
            /\ UNCHANGED <<modal, timers, children>>
    /\ UNCHANGED <<phase, initResults, serviceStatus, lastProbe, processes, terminated,
                   quitMsg, exitCode, logLimit>>

\* the user dismisses the error dialog of StartCompleteSystem, which returns
MarkerErrorDismissed ==
    /\ phase = "running"
    /\ modal = "markerError"
    /\ modal' = "none"
    /\ last' = Step("MessageBoxReturn", 0, <<CallMessageBoxReturn("IDOK")>>)
    /\ UNCHANGED <<phase, initResults, serviceStatus, lastProbe, processes, children,
                   terminated, logText, timers, quitMsg, exitCode, logLimit>>

\* a port list that names 8001 twice and leaves 3000 out
StopPortsRepeated == <<PORT_SYSTEM, PORT_BACKEND, PORT_BACKEND>>

\* the ports StopAllServices walks: std::vector<int> ports = {8000, 8001, 3000}
StopPorts == <<PORT_SYSTEM, PORT_BACKEND, PORT_FRONTEND>>

\* the command line StopAllServices builds for one port
KillCommand(port) ==
    <<"taskkill /F /FI \"PID eq $(Get-NetTCPConnection -LocalPort ">>
        \o Decimal(port)   \* std::to_wstring(port)
        \o <<" | Select-Object -ExpandProperty OwningProcess)\"">>

\* a StopAllServices that also marks the three services as stopped
StopAllServicesClearingStatus(killed) ==
    /\ CanLog(2)
    /\ logText' = AddLog(AddLog(logText, MsgStoppingAll), MsgAllStopped)
    /\ serviceStatus' = [s \in Services |-> FALSE]
    /\ last' = Step("WM_COMMAND", ID_STOP_ALL,
            <<CallAddLog(MsgStoppingAll)>>
            \o [i \in DOMAIN StopPorts |->
                   CallShellExecuteEx("powershell", KillCommand(StopPorts[i]), killed[i])]
            \o <<CallAddLog(MsgAllStopped)>>)
    /\ UNCHANGED <<phase, initResults, modal, lastProbe, processes,
                   children, terminated, timers, quitMsg, exitCode, logLimit>>

\* a StopAllServices that also cancels the pending browser-open
StopAllServicesKillingBrowserTimer(killed) ==
    /\ CanLog(2)
    /\ logText' = AddLog(AddLog(logText, MsgStoppingAll), MsgAllStopped)
    /\ timers' = KillTimer(timers, TIMER_OPEN_BROWSER)
    /\ last' = Step("WM_COMMAND", ID_STOP_ALL,
            <<CallAddLog(MsgStoppingAll)>>
            \o [i \in DOMAIN StopPorts |->
                   CallShellExecuteEx("powershell", KillCommand(StopPorts[i]), killed[i])]
            \o <<CallKillTimer(TIMER_OPEN_BROWSER), CallAddLog(MsgAllStopped)>>)
    /\ UNCHANGED <<phase, initResults, modal, serviceStatus, lastProbe, processes,
                   children, terminated, quitMsg, exitCode, logLimit>>

\* a StopAllServices that reports an error when a kill command could not
\* be launched
StopAllServicesReportingFailures(killed) ==
    LET outcome == IF \A i \in DOMAIN StopPorts : killed[i]
                   THEN MsgAllStopped
                   ELSE <<"(cross)", " Error deteniendo servicios">>
    IN  /\ CanLog(2)
        /\ logText' = AddLog(AddLog(logText, MsgStoppingAll), outcome)
        /\ last' = Step("WM_COMMAND", ID_STOP_ALL,
                <<CallAddLog(MsgStoppingAll)>>
                \o [i \in DOMAIN StopPorts |->
                       CallShellExecuteEx("powershell", KillCommand(StopPorts[i]), killed[i])]
                \o <<CallAddLog(outcome)>>)
        /\ UNCHANGED <<phase, initResults, modal, serviceStatus, lastProbe, processes,
                       children, terminated, timers, quitMsg, exitCode, logLimit>>

\* StopAllServices; killed[i] is what the i-th ShellExecuteEx returns
StopAllServices(killed) ==
    /\ CanLog(2)
    /\ logText' = AddLog(AddLog(logText, MsgStoppingAll),
                         MsgAllStopped)
    /\ last' = Step("WM_COMMAND", ID_STOP_ALL,
            <<CallAddLog(MsgStoppingAll)>>
            \o [i \in DOMAIN StopPorts |->
                   CallShellExecuteEx("powershell", KillCommand(StopPorts[i]), killed[i])]
            \o <<CallAddLog(MsgAllStopped)>>)
    /\ UNCHANGED <<phase, initResults, modal, serviceStatus, lastProbe, processes,
                   children, terminated, timers, quitMsg, exitCode, logLimit>>

\* a StartIndividualService that marks the service as running when its
\* launch succeeded
StartIndividualServiceMarkingRunning(commandId, service, scriptName, launched) ==
    /\ CanLog(2)
    /\ logText' = AddLog(AddLog(logText, MsgStarting(service)),
                         IF launched THEN MsgStarted(service) ELSE MsgStartFailed(service))
    /\ children' = IF launched THEN children \cup {NewChild(scriptName)} ELSE children
    /\ serviceStatus' =
           IF launched
           THEN [serviceStatus EXCEPT ![CASE service = "Backend" -> "backend"
                                          [] service = "Frontend" -> "frontend"
                                          [] OTHER -> "system"] = TRUE]
           ELSE serviceStatus
    /\ last' = Step("WM_COMMAND", commandId,
            <<CallAddLog(MsgStarting(service)),
              CallShellExecuteEx(scriptName, <<>>, launched),
              CallAddLog(IF launched THEN MsgStarted(service)
                                     ELSE MsgStartFailed(service))>>)
    /\ UNCHANGED <<phase, initResults, modal, lastProbe, processes,
                   terminated, timers, quitMsg, exitCode, logLimit>>

\* a StartIndividualService that schedules the browser-open as
\* StartCompleteSystem does
StartIndividualServiceOpeningBrowser(commandId, service, scriptName, launched) ==
    /\ CanLog(2)
    /\ logText' = AddLog(AddLog(logText, MsgStarting(service)),
                         IF launched THEN MsgStarted(service) ELSE MsgStartFailed(service))
    /\ children' = IF launched THEN children \cup {NewChild(scriptName)} ELSE children
    /\ timers' = IF launched
                 THEN SetTimer(timers, TIMER_OPEN_BROWSER, BROWSER_DELAY_MS)
                 ELSE timers
    /\ last' = Step("WM_COMMAND", commandId,
            <<CallAddLog(MsgStarting(service)),
              CallShellExecuteEx(scriptName, <<>>, launched),
              CallAddLog(IF launched THEN MsgStarted(service)
                                     ELSE MsgStartFailed(service))>>)
    /\ UNCHANGED <<phase, initResults, modal, serviceStatus, lastProbe, processes,
                   terminated, quitMsg, exitCode, logLimit>>

\* StartIndividualService(service, scriptName); launched is what
\* ShellExecuteEx returns
StartIndividualService(commandId, service, scriptName, launched) ==
    /\ CanLog(2)
    /\ logText' = AddLog(AddLog(logText, MsgStarting(service)),
                         IF launched THEN MsgStarted(service) ELSE MsgStartFailed(service))
    /\ children' = IF launched THEN children \cup {NewChild(scriptName)} ELSE children
    /\ last' = Step("WM_COMMAND", commandId,
            <<CallAddLog(MsgStarting(service)),
              CallShellExecuteEx(scriptName, <<>>, launched),
              CallAddLog(IF launched THEN MsgStarted(service)
                                     ELSE MsgStartFailed(service))>>)
    /\ UNCHANGED <<phase, initResults, modal, serviceStatus, lastProbe, processes,
                   terminated, timers, quitMsg, exitCode, logLimit>>

\* OpenURL(url), called from a button
OpenURL(commandId, url) ==
    /\ CanLog(1)
    /\ logText' = AddLog(logText, MsgOpened(url))
    /\ last' = Step("WM_COMMAND", commandId, OpenURLCalls(url))
    /\ UNCHANGED <<phase, initResults, modal, serviceStatus, lastProbe, processes,
                   children, terminated, timers, quitMsg, exitCode, logLimit>>

(***************************************************************************)
(* Command dispatcher.                                                     *)
(***************************************************************************)
\* the service name and the script of each start button
ServiceOf(commandId) ==
    CASE commandId = ID_START_BACKEND -> <<"Backend", "start_backend.bat">>
      [] commandId = ID_START_FRONTEND -> <<"Frontend", "start_frontend.bat">>
      [] commandId = ID_START_SYSTEM -> <<"Sistema Principal", "main_etiquetadora.py">>

\* a dispatcher with the URLs of two link buttons exchanged
UrlOfExchanged(commandId) ==
    CASE commandId = ID_OPEN_FRONTEND -> URL_SYSTEM
      [] commandId = ID_OPEN_BACKEND -> URL_BACKEND_DOCS
      [] commandId = ID_OPEN_SYSTEM -> URL_FRONTEND

\* the URL of each link button
UrlOf(commandId) ==
    CASE commandId = ID_OPEN_FRONTEND -> URL_FRONTEND
      [] commandId = ID_OPEN_BACKEND -> URL_BACKEND_DOCS
      [] commandId = ID_OPEN_SYSTEM -> URL_SYSTEM

\* a window that takes input while a MessageBox it owns is open
WindowEnabledAlways(m) == TRUE

\* MessageBox(hwnd, ...) disables its owner until it is answered: the window
\* and its buttons take no input while a dialog is open
WindowEnabled(m) == m = "none"

\* WM_COMMAND: HandleCommand(LOWORD(wParam)).  The buttons send their command
\* only while the window is enabled; the log edit control notifies its parent
\* with its own identifier whenever its text is changed.
HandleCommand(commandId) ==
    /\ phase = "running"
    /\ (WindowEnabled(modal) \/ commandId = ID_LOGS_TEXTBOX)
    /\ CASE commandId = ID_START_ALL ->
                \E markerPresent, launched \in BOOLEAN :
                    StartCompleteSystem(markerPresent, launched)
         [] commandId = ID_STOP_ALL ->
                \E killed \in [DOMAIN StopPorts -> BOOLEAN] : StopAllServices(killed)
         [] commandId \in {ID_START_BACKEND, ID_START_FRONTEND, ID_START_SYSTEM} ->
                \E launched \in BOOLEAN :
                    StartIndividualService(commandId, ServiceOf(commandId)[1],
                                           ServiceOf(commandId)[2], launched)
         [] commandId \in {ID_OPEN_FRONTEND, ID_OPEN_BACKEND, ID_OPEN_SYSTEM} ->
                OpenURL(commandId, UrlOf(commandId))
         [] OTHER -> /\ last' = Step("WM_COMMAND", commandId, <<>>)
                     /\ UNCHANGED <<phase, initResults, modal, serviceStatus, lastProbe,
                                    processes, children, terminated, logText,
                                    timers, quitMsg, exitCode, logLimit>>

(***************************************************************************)
(* Window procedure: painting, closing.                                    *)
(***************************************************************************)
\* the text colour of an indicator: green when its flag is set, red when not
IndicatorColor(isRunning) == IF isRunning THEN RGB_GREEN ELSE RGB_RED

\* the text colour WM_CTLCOLORSTATIC sets for a static control
TextColorOf(hControl) ==
    IF hControl = "hStatusBackend" THEN IndicatorColor(serviceStatus["backend"])
    ELSE IF hControl = "hStatusFrontend" THEN IndicatorColor(serviceStatus["frontend"])
    ELSE IF hControl = "hStatusSystem" THEN IndicatorColor(serviceStatus["system"])
    ELSE RGB_WHITE

\* WM_CTLCOLORSTATIC: a static control is about to be drawn
CtlColorStatic(hControl) ==
    /\ phase = "running"
    /\ last' = Step("WM_CTLCOLORSTATIC", hControl,
            <<CallSetTextColor(TextColorOf(hControl)), CallSetBkColor(RGB_BACKGROUND)>>)
    /\ UNCHANGED <<phase, initResults, modal, serviceStatus, lastProbe, processes, children,
                   terminated, logText, timers, quitMsg, exitCode, logLimit>>

\* WM_CLOSE: the window procedure asks for confirmation and blocks in MessageBox
Close ==
    /\ phase = "running"
    /\ WindowEnabled(modal)
    /\ modal' = "closeConfirm"
    /\ last' = Step("WM_CLOSE", 0, <<CallMessageBox("hwnd", "MB_YESNO")>>)
    /\ UNCHANGED <<phase, initResults, serviceStatus, lastProbe, processes, children,
                   terminated, logText, timers, quitMsg, exitCode, logLimit>>

\* a WM_CLOSE that does not look at the answer
CloseConfirmedAlways(answer) == TRUE

\* whether WM_CLOSE goes on to DestroyWindow, given what MessageBox returned
CloseConfirmed(answer) == answer = "IDYES"

\* MessageBox returns in WM_CLOSE; on IDYES DestroyWindow sends WM_DESTROY,
\* which kills the status timer and posts WM_QUIT, and destroys the other
\* timers of the window with it
CloseAnswered(answer) ==
    /\ phase = "running"
    /\ modal = "closeConfirm"
    /\ modal' = "none"
    /\ IF CloseConfirmed(answer)
       THEN /\ phase' = "quitPosted"
            /\ timers' = DestroyTimers(KillTimer(timers, TIMER_STATUS_UPDATE))
            /\ quitMsg' = <<0>>
            /\ last' = Step("MessageBoxReturn", 0,
                    <<CallMessageBoxReturn(answer), CallDestroyWindow,
                      CallKillTimer(TIMER_STATUS_UPDATE), CallPostQuitMessage(0)>>)
       ELSE /\ last' = Step("MessageBoxReturn", 0, <<CallMessageBoxReturn(answer)>>)
            /\ UNCHANGED <<phase, timers, quitMsg>>
    /\ UNCHANGED <<initResults, serviceStatus, lastProbe, processes, children, terminated,
                   logText, exitCode, logLimit>>

(***************************************************************************)
(* WinMain: Run, destruction.                                              *)
(***************************************************************************)
\* Run: GetMessage takes WM_QUIT, the loop ends, WinMain returns msg.wParam
RunReturns ==
    /\ phase = "quitPosted"
    /\ phase' = "returned"
    /\ exitCode' = quitMsg
    /\ last' = Step("WM_QUIT", quitMsg[1], <<>>)
    /\ UNCHANGED <<initResults, modal, serviceStatus, lastProbe, processes, children,
                   terminated, logText, timers, quitMsg, logLimit>>

\* the handles ~VisiFruitLauncher terminates: those of the process list
HandlesToTerminate ==
    {processes[i].hProcess : i \in {j \in DOMAIN processes : processes[j].hProcess # -1}}

\* ~VisiFruitLauncher, run when WinMain returns
Destructor ==
    /\ phase = "returned"
    /\ phase' = "exited"
    /\ terminated' = terminated \cup HandlesToTerminate
    /\ last' = Step("~VisiFruitLauncher", 0,
            [i \in 1 .. Len(SelectSeq(processes, LAMBDA p : p.hProcess # -1)) |->
                CallTerminateProcess(
                    SelectSeq(processes, LAMBDA p : p.hProcess # -1)[i].hProcess)])
    /\ UNCHANGED <<initResults, modal, serviceStatus, lastProbe, processes, children,
                   logText, timers, quitMsg, exitCode, logLimit>>

(***************************************************************************)
(* Environment: time.                                                      *)
(***************************************************************************)
\* time passes until the next running timer of the window runs out
TimePasses ==
    /\ phase = "running"
    /\ Running(timers) # {}
    /\ timers' = Elapsed(timers, NextDeadline(timers))
    /\ last' = Step("none", 0, <<>>)
    /\ UNCHANGED <<phase, initResults, modal, serviceStatus, lastProbe, processes, children,
                   terminated, logText, quitMsg, exitCode, logLimit>>

(***************************************************************************)
(* Specification.                                                          *)
(***************************************************************************)
Next ==
    \/ \E registered, created \in BOOLEAN : Initialize(registered, created)
    \/ InitErrorDismissed
    \/ \E commandId \in CommandIds : HandleCommand(commandId)
    \/ \E timerId \in {TIMER_STATUS_UPDATE, TIMER_OPEN_BROWSER} : HandleTimer(timerId)
    \/ \E hControl \in StaticControls : CtlColorStatic(hControl)
    \/ MarkerErrorDismissed
    \/ Close
    \/ \E answer \in {"IDYES", "IDNO"} : CloseAnswered(answer)
    \/ RunReturns
    \/ Destructor
    \/ TimePasses

Spec == Init /\ [][Next]_vars

(***************************************************************************)
(* The runs in which the window is created and the user presses only the   *)
(* start-all and stop-all buttons and the close box: the same handlers,    *)
(* with room for a longer log.                                             *)
(***************************************************************************)
InitStartStop ==
    /\ Constructed
    /\ logLimit = MaxLogStartStop

NextStartStop ==
    \/ Initialize(TRUE, TRUE)
    \/ \E commandId \in {ID_START_ALL, ID_STOP_ALL} : HandleCommand(commandId)
    \/ \E timerId \in {TIMER_STATUS_UPDATE, TIMER_OPEN_BROWSER} : HandleTimer(timerId)
    \/ MarkerErrorDismissed
    \/ Close
    \/ \E answer \in {"IDYES", "IDNO"} : CloseAnswered(answer)
    \/ TimePasses

SpecStartStop == InitStartStop /\ [][NextStartStop]_vars

(***************************************************************************)
(* The runs in which the window is created and the user presses only the   *)
(* four start buttons.                                                     *)
(***************************************************************************)
InitStart ==
    /\ Constructed
    /\ logLimit = MaxLogStart

NextStart ==
    \/ Initialize(TRUE, TRUE)
    \/ \E commandId \in {ID_START_ALL, ID_START_BACKEND, ID_START_FRONTEND,
                          ID_START_SYSTEM} : HandleCommand(commandId)
    \/ \E timerId \in {TIMER_STATUS_UPDATE, TIMER_OPEN_BROWSER} : HandleTimer(timerId)
    \/ MarkerErrorDismissed
    \/ TimePasses

SpecStart == InitStart /\ [][NextStart]_vars

(***************************************************************************)
(* Properties.                                                             *)
(***************************************************************************)
\* the step taken last handled message msg with parameter wParam
Handled(step, msg, wParam) == step.msg = msg /\ step.wParam = wParam

\* the files given to ShellExecuteEx, and the URLs given to ShellExecute
LaunchesOf(calls) ==
    [i \in DOMAIN CallsOf(calls, "ShellExecuteEx") |-> CallsOf(calls, "ShellExecuteEx")[i].file]
OpensOf(calls) ==
    [i \in DOMAIN CallsOf(calls, "ShellExecute") |-> CallsOf(calls, "ShellExecute")[i].file]
\* the messages given to AddLog, and those of them that report an error
LoggedBy(calls) ==
    [i \in DOMAIN CallsOf(calls, "AddLog") |-> CallsOf(calls, "AddLog")[i].message]
ErrorsLoggedBy(calls) == SelectSeq(LoggedBy(calls), LAMBDA m : m[1] = "(cross)")

\* the part of the log a step has added, when the step kept what was there
AddedText(before, after) == SubSeq(after, Len(before) + 1, Len(after))
KeepsText(before, after) ==
    Len(before) <= Len(after) /\ SubSeq(after, 1, Len(before)) = before

\* each indicator with its service and its port
Indicators ==
    {<<"hStatusBackend", "backend", 8001>>,
     <<"hStatusFrontend", "frontend", 3000>>,
     <<"hStatusSystem", "system", 8000>>}

\* C1: once a poll cycle has run, the colour WM_CTLCOLORSTATIC sets for the
\* indicator of a service is green if the latest CheckPort of the port of
\* that service returned true, and red if it returned false.
C1_IndicatorColourFollowsLastProbe ==
    \A ind \in Indicators :
        (Handled(last, "WM_CTLCOLORSTATIC", ind[1]) /\ ind[3] \in DOMAIN lastProbe)
        => /\ Len(CallsOf(last.calls, "SetTextColor")) = 1
           /\ CallsOf(last.calls, "SetTextColor")[1].rgb =
                  (IF lastProbe[ind[3]] THEN <<76, 175, 80>> ELSE <<244, 67, 54>>)

\* C1 witness: the frontend indicator is drawn green after a poll cycle in
\* which the probe of 3000 succeeded and the probe of 8001 failed.
C1_Witness ==
    /\ Handled(last, "WM_CTLCOLORSTATIC", "hStatusFrontend")
    /\ DOMAIN lastProbe = {8001, 3000, 8000}
    /\ lastProbe[3000] /\ ~lastProbe[8001] /\ ~lastProbe[8000]
    /\ CallsOf(last.calls, "SetTextColor")[1].rgb = <<76, 175, 80>>

\* the step is a start-all that did not find the marker file
StartAllWithoutMarker(step) ==
    /\ Handled(step, "WM_COMMAND", ID_START_ALL)
    /\ Len(CallsOf(step.calls, "GetFileAttributes")) = 1
    /\ ~CallsOf(step.calls, "GetFileAttributes")[1].found

\* C2: a start-all that does not find main_etiquetadora.py logs exactly one
\* error line, shows exactly one modal error dialog, launches nothing, leaves
\* the timers as they were (no browser-open timer is set, the status timer
\* stays armed) and leaves the launcher running; when the dialog is
\* dismissed the launcher takes commands again.
C2_StartAllWithoutMarkerOnlyReports ==
    [][ /\ StartAllWithoutMarker(last')
           => /\ Len(ErrorsLoggedBy(last'.calls)) = 1
              /\ KeepsText(logText, logText')
              /\ LineCount(logText') = LineCount(logText) + Len(LoggedBy(last'.calls))
              /\ Len(SelectSeq(AddedText(logText, logText'),
                               LAMBDA c : c = "(cross)")) = 1
              /\ Len(CallsOf(last'.calls, "MessageBox")) = 1
              /\ modal' = "markerError"
              /\ LaunchesOf(last'.calls) = <<>>
              /\ OpensOf(last'.calls) = <<>>
              /\ children' = children
              /\ CallsOf(last'.calls, "SetTimer") = <<>>
              /\ CallsOf(last'.calls, "KillTimer") = <<>>
              /\ timers' = timers
              /\ TIMER_STATUS_UPDATE \in DOMAIN timers'
              /\ phase' = "running"
        /\ (modal = "markerError" /\ modal' # "markerError")
           => /\ modal' = "none"
              /\ phase' = "running"
              /\ TIMER_STATUS_UPDATE \in DOMAIN timers'
      ]_vars

\* C2 witness: a command is handled after a start-all that did not find the
\* marker file and whose dialog has been dismissed.
C2_Witness ==
    /\ Handled(last, "WM_COMMAND", ID_OPEN_SYSTEM)
    /\ Len(SelectSeq(logText, LAMBDA c : c = " Error: No se encuentra main_etiquetadora.py")) = 1
    /\ modal = "none"
    /\ children = {}

\* the step is a start-all that found the marker file
StartAllWithMarker(step) ==
    /\ Handled(step, "WM_COMMAND", ID_START_ALL)
    /\ Len(CallsOf(step.calls, "GetFileAttributes")) = 1
    /\ CallsOf(step.calls, "GetFileAttributes")[1].found

\* the step is a start-all whose launch succeeded
StartAllLaunched(step) ==
    /\ StartAllWithMarker(step)
    /\ Len(CallsOf(step.calls, "ShellExecuteEx")) = 1
    /\ CallsOf(step.calls, "ShellExecuteEx")[1].ok

\* C3: a start-all that finds the marker file makes exactly one launch
\* attempt, of start_sistema_completo.bat; if the launch succeeds timer 3001
\* is set to 8000 ms, if it fails the timers stay as they were.  Timer 3001
\* is handled only once its 8000 ms have run out; handling it opens
\* http://localhost:3000 once and kills the timer, and only a start-all whose
\* launch succeeded arms it again.
C3_StartAllLaunchesOnceAndOpensBrowserOnce ==
    [][ /\ StartAllWithMarker(last')
           => /\ LaunchesOf(last'.calls) = <<"start_sistema_completo.bat">>
              /\ IF StartAllLaunched(last')
                 THEN /\ CallsOf(last'.calls, "SetTimer") =
                             <<[op |-> "SetTimer", id |-> 3001, ms |-> 8000]>>
                      /\ 3001 \in DOMAIN timers'
                      /\ timers'[3001] = [elapse |-> 8000, left |-> 8000]
                 ELSE /\ CallsOf(last'.calls, "SetTimer") = <<>>
                      /\ timers' = timers
        /\ Handled(last', "WM_TIMER", 3001)
           => /\ 3001 \in DOMAIN timers
              /\ timers[3001].left = 0
              /\ OpensOf(last'.calls) = <<"http://localhost:3000">>
              /\ LaunchesOf(last'.calls) = <<>>
              /\ 3001 \notin DOMAIN timers'
        /\ (3001 \in DOMAIN timers' /\ (3001 \notin DOMAIN timers
                                        \/ timers'[3001].left > timers[3001].left))
           => StartAllLaunched(last')
      ]_vars

\* C3 witness: the browser timer of a launched start-all has just been
\* handled and is gone.
C3_Witness ==
    /\ Handled(last, "WM_TIMER", 3001)
    /\ OpensOf(last.calls) = <<"http://localhost:3000">>
    /\ 3001 \notin DOMAIN timers
    /\ \E c \in children : c.file = "start_sistema_completo.bat"

\* C4: WM_CLOSE always asks with a yes/no MessageBox and changes nothing
\* else.  The launcher leaves the message loop only by the answer yes: that
\* step destroys the window and kills the status timer, then Run returns,
\* and only then the destructor terminates exactly the handles of the
\* process list.  The answer no leaves window, timers and processes alone.
C4_CloseTearsDownOnlyOnYes ==
    [][ /\ Handled(last', "WM_CLOSE", 0)
           => /\ last'.calls = <<[op |-> "MessageBox", owner |-> "hwnd", type |-> "MB_YESNO"]>>
              /\ modal' = "closeConfirm"
              /\ phase' = "running"
              /\ timers' = timers
              /\ terminated' = terminated
        /\ (phase = "running" /\ phase' # "running")
           => /\ modal = "closeConfirm"
              /\ last'.calls[1] = [op |-> "MessageBoxReturn", ret |-> "IDYES"]
              /\ Len(CallsOf(last'.calls, "DestroyWindow")) = 1
              /\ phase' = "quitPosted"
              /\ TIMER_STATUS_UPDATE \in DOMAIN timers
              /\ TIMER_STATUS_UPDATE \notin DOMAIN timers'
              /\ terminated' = terminated
        /\ (modal = "closeConfirm" /\ modal' # "closeConfirm"
                /\ last'.calls[1] = [op |-> "MessageBoxReturn", ret |-> "IDNO"])
           => /\ phase' = "running"
              /\ CallsOf(last'.calls, "DestroyWindow") = <<>>
              /\ timers' = timers
              /\ terminated' = terminated
              /\ quitMsg' = quitMsg
        /\ (phase = "quitPosted" /\ phase' # "quitPosted")
           => /\ phase' = "returned"
              /\ TIMER_STATUS_UPDATE \notin DOMAIN timers
              /\ terminated' = terminated
        /\ (phase # "exited" /\ phase' = "exited")
           => /\ phase = "returned"
              /\ terminated' = terminated \cup {processes[i].hProcess : i \in DOMAIN processes}
        /\ terminated' # terminated => phase' = "exited"
      ]_vars

\* C4 witness: the launcher has exited after the answer yes, the status
\* timer killed.
C4_Witness ==
    /\ phase = "exited"
    /\ initResults = <<TRUE, TRUE>>
    /\ quitMsg = <<0>>
    /\ TIMER_STATUS_UPDATE \notin DOMAIN timers

\* C5 (as claimed): every process handle a start action obtained is in the
\* process list, and when the launcher has exited every one of them has
\* been terminated.
C5_StartedProcessesAreTrackedAndTerminated ==
    /\ \A c \in children : \E i \in DOMAIN processes : processes[i].hProcess = c.hProcess
    /\ phase = "exited" => \A c \in children : c.hProcess \in terminated

\* the decimal port number inside a kill command line
PortDigitsOf(params) == SubSeq(params, 2, Len(params) - 1)

\* C6: a stop-all issues exactly three kill commands through powershell, one
\* for each of the ports 8000, 8001 and 3000, and opens nothing else.
C6_StopAllIssuesThreeKills ==
    Handled(last, "WM_COMMAND", ID_STOP_ALL)
    => LET kills == CallsOf(last.calls, "ShellExecuteEx")
       IN  /\ Len(kills) = 3
           /\ \A i \in 1 .. 3 : kills[i].file = "powershell"
           /\ {PortDigitsOf(kills[i].params) : i \in 1 .. 3} =
                  {<<"8", "0", "0", "0">>, <<"8", "0", "0", "1">>, <<"3", "0", "0", "0">>}
           /\ OpensOf(last.calls) = <<>>

\* C6 witness: a stop-all whose first kill command could not be launched,
\* issued while the backend is shown as running.
C6_Witness ==
    /\ Handled(last, "WM_COMMAND", ID_STOP_ALL)
    /\ ~CallsOf(last.calls, "ShellExecuteEx")[1].ok
    /\ CallsOf(last.calls, "ShellExecuteEx")[2].ok
    /\ serviceStatus["backend"]

RECURSIVE SplitLines(_)
\* the lines of a text, each with its line end
SplitLines(text) ==
    IF text = <<>> THEN <<>>
    ELSE LET ends == {i \in DOMAIN text : text[i] = "\r\n"}
             k == IF ends = {} THEN Len(text)
                  ELSE CHOOSE i \in ends : \A j \in ends : i <= j
         IN  <<SubSeq(text, 1, k)>> \o SplitLines(SubSeq(text, k + 1, Len(text)))

Digits == {"0", "1", "2", "3", "4", "5", "6", "7", "8", "9"}

\* line is "[HH:MM:SS] " followed by message and a line end
IsLogLine(line, message) ==
    /\ Len(line) = 11 + Len(message)
    /\ line[1] = "[" /\ line[4] = ":" /\ line[7] = ":" /\ line[10] = "] "
    /\ \A i \in {2, 3, 5, 6, 8, 9} : line[i] \in Digits
    /\ SubSeq(line, 11, 10 + Len(message)) = message
    /\ line[Len(line)] = "\r\n"

\* C7: every step keeps the log text it found and adds, after it, exactly
\* one line "[HH:MM:SS] message" for each AddLog call it makes, in call
\* order; a step without AddLog calls leaves the log as it is.
C7_LogIsAppendOnly ==
    [][ /\ KeepsText(logText, logText')
        /\ LET added == SplitLines(AddedText(logText, logText'))
               logged == LoggedBy(last'.calls)
           IN  /\ Len(added) = Len(logged)
               /\ \A i \in DOMAIN added : IsLogLine(added[i], logged[i])
      ]_vars

\* C7 witness: a log of four lines, the last two of them written by
\* start-frontend at 10:00:01 and 10:00:02.
C7_Witness ==
    /\ Handled(last, "WM_COMMAND", ID_START_FRONTEND)
    /\ Len(SplitLines(logText)) = 4
    /\ SplitLines(logText)[1] =
           <<"[", "0", "9", ":", "5", "9", ":", "5", "9", "] ", "(rocket)",
             " VisiFruit Launcher (C++ Native) iniciado", "\r\n">>
    /\ SplitLines(logText)[4] =
           <<"[", "1", "0", ":", "0", "0", ":", "0", "2", "] ", "(check)", " ",
             "Frontend", " iniciado", "\r\n">>

\* C8: only the handling of the status timer changes a service flag; a
\* stop-all in particular leaves the three flags as they were.
C8_OnlyThePollWritesTheFlags ==
    [][ /\ serviceStatus' # serviceStatus => Handled(last', "WM_TIMER", TIMER_STATUS_UPDATE)
        /\ Handled(last', "WM_COMMAND", ID_STOP_ALL) => serviceStatus' = serviceStatus
      ]_vars

\* C8 witness: a stop-all has been handled and all three flags are still set.
C8_Witness ==
    /\ Handled(last, "WM_COMMAND", ID_STOP_ALL)
    /\ \A s \in Services : serviceStatus[s]

\* C9: each button identifier leads to its one action: start-all to
\* StartCompleteSystem, stop-all to StopAllServices, the three start buttons
\* to one launch of their script, the three link buttons to one opening of
\* their URL; any other identifier launches, opens and logs nothing.
C9_DispatchTable ==
    [][ last'.msg = "WM_COMMAND"
        => LET id == last'.wParam
               launches == LaunchesOf(last'.calls)
               opens == OpensOf(last'.calls)
               logged == LoggedBy(last'.calls)
           IN  CASE id = ID_START_ALL ->
                        /\ logged[1] = MsgStartingAll
                        /\ Len(CallsOf(last'.calls, "GetFileAttributes")) = 1
                        /\ launches \in {<<>>, <<"start_sistema_completo.bat">>}
                        /\ opens = <<>>
                 [] id = ID_STOP_ALL ->
                        /\ logged = <<MsgStoppingAll, MsgAllStopped>>
                        /\ launches = <<"powershell", "powershell", "powershell">>
                        /\ opens = <<>>
                 [] id = ID_START_BACKEND ->
                        launches = <<"start_backend.bat">> /\ opens = <<>>
                 [] id = ID_START_FRONTEND ->
                        launches = <<"start_frontend.bat">> /\ opens = <<>>
                 [] id = ID_START_SYSTEM ->
                        launches = <<"main_etiquetadora.py">> /\ opens = <<>>
                 [] id = ID_OPEN_FRONTEND ->
                        launches = <<>> /\ opens = <<"http://localhost:3000">>
                 [] id = ID_OPEN_BACKEND ->
                        launches = <<>> /\ opens = <<"http://localhost:8001/api/docs">>
                 [] id = ID_OPEN_SYSTEM ->
                        launches = <<>> /\ opens = <<"http://localhost:8000">>
                 [] OTHER ->
                        /\ last'.calls = <<>>
                        /\ logText' = logText
                        /\ children' = children
                        /\ timers' = timers
      ]_vars

\* C9 witness: the backend-docs button has opened its URL.
C9_Witness ==
    /\ Handled(last, "WM_COMMAND", ID_OPEN_BACKEND)
    /\ OpensOf(last.calls) = <<"http://localhost:8001/api/docs">>

\* window initialization failed: RegisterClassEx or CreateWindowEx
InitFailed == initResults # <<>> /\ (~initResults[1] \/ ~initResults[2])

\* C10: WinMain returns 1 exactly when window initialization failed; it then
\* has shown the error dialog, armed no timer, logged nothing and never
\* entered the message loop.  When initialization succeeded WinMain returns
\* the 0 of the WM_QUIT that WM_DESTROY posted.
C10_ExitCodes ==
    /\ exitCode \in {<<>>, <<0>>, <<1>>}
    /\ exitCode # <<>> <=> phase \in {"returned", "exited"}
    /\ exitCode = <<1>> <=> (InitFailed /\ phase \in {"returned", "exited"})
    /\ InitFailed
       => /\ phase \in {"initError", "returned", "exited"}
          /\ DOMAIN timers = {}
          /\ logText = <<>>
          /\ quitMsg = <<>>
    /\ phase = "initError"
       => last.calls = <<[op |-> "MessageBox", owner |-> "NULL", type |-> "MB_OK"]>>
    /\ (InitFailed /\ phase = "returned")
       => last.calls = <<[op |-> "MessageBoxReturn", ret |-> "IDOK"]>>
    /\ (~InitFailed /\ phase \in {"returned", "exited"})
       => exitCode = <<0>> /\ quitMsg = <<0>>

\* C10 witness: the launcher has exited with 1 after CreateWindowEx failed.
C10_Witness ==
    /\ phase = "exited"
    /\ exitCode = <<1>>
    /\ initResults = <<TRUE, FALSE>>

\* the ports of the CheckPort calls of a step, in call order
ProbedBy(calls) ==
    [i \in DOMAIN CallsOf(calls, "CheckPort") |-> CallsOf(calls, "CheckPort")[i].port]

\* C11: the poller is idle between the handlings of the status timer.  A
\* cycle starts only when the 3000 ms of the status timer have run out; it
\* makes exactly three probes, of 8001, 3000 and 8000 in this order, with no
\* other call before or between them, all inside the one handling of the
\* timer message, and it ends with the timer started over, so that no cycle
\* is in progress when the next message is taken.  No other step probes.
C11_PollCycleIsSerial ==
    [][ /\ Handled(last', "WM_TIMER", TIMER_STATUS_UPDATE)
           => /\ TIMER_STATUS_UPDATE \in DOMAIN timers
              /\ timers[TIMER_STATUS_UPDATE].left = 0
              /\ ProbedBy(last'.calls) = <<8001, 3000, 8000>>
              /\ \A i \in 1 .. 3 : last'.calls[i].op = "CheckPort"
              /\ timers'[TIMER_STATUS_UPDATE] = [elapse |-> 3000, left |-> 3000]
        /\ ProbedBy(last'.calls) # <<>>
           => Handled(last', "WM_TIMER", TIMER_STATUS_UPDATE)
      ]_vars

\* C11 witness: a poll cycle has run after a command was handled; its probe
\* of 3000 failed and its probes of 8001 and 8000 succeeded.
C11_Witness ==
    /\ Handled(last, "WM_TIMER", TIMER_STATUS_UPDATE)
    /\ ProbedBy(last.calls) = <<8001, 3000, 8000>>
    /\ last.calls[1].ret /\ ~last.calls[2].ret /\ last.calls[3].ret
    /\ LineCount(logText) > 1
    /\ timers[TIMER_STATUS_UPDATE].left = 3000

\* the identifiers of the eight buttons
ButtonIds == ID_START_ALL .. ID_OPEN_SYSTEM

\* C12 (as claimed): while a dialog is open no status poll cycle runs, the
\* browser timer is not handled and no command of a button is dispatched.
C12_NothingRunsWhileDialogIsOpen ==
    [][ modal # "none"
        => /\ ~Handled(last', "WM_TIMER", TIMER_STATUS_UPDATE)
           /\ ~Handled(last', "WM_TIMER", TIMER_OPEN_BROWSER)
           /\ ~(last'.msg = "WM_COMMAND" /\ last'.wParam \in ButtonIds)
      ]_vars

\* C12 (amended): while a dialog is open no command of a button is
\* dispatched, so nothing is launched or stopped and no URL is opened by a
\* button, and the dialog goes away only by its answer.  The timers of the
\* window are still handled: a step taken while a dialog is open is a status
\* poll cycle, the browser-open of the timer, a repaint, a notification of
\* the log control or the answer.
C12_DialogBlocksCommandsNotTimers ==
    [][ modal # "none"
        => /\ ~(last'.msg = "WM_COMMAND" /\ last'.wParam \in ButtonIds)
           /\ LaunchesOf(last'.calls) = <<>>
           /\ children' = children
           /\ OpensOf(last'.calls) # <<>> => Handled(last', "WM_TIMER", TIMER_OPEN_BROWSER)
           /\ modal' # modal => (last'.msg = "MessageBoxReturn" /\ modal' = "none")
           /\ \/ Handled(last', "WM_TIMER", TIMER_STATUS_UPDATE)
              \/ Handled(last', "WM_TIMER", TIMER_OPEN_BROWSER)
              \/ last'.msg = "WM_CTLCOLORSTATIC"
              \/ Handled(last', "WM_COMMAND", ID_LOGS_TEXTBOX)
              \/ last'.msg = "MessageBoxReturn"
              \/ last'.msg = "none"
      ]_vars

\* C12 witness: the browser timer of a start-all has been handled, and the
\* frontend opened, while the close confirmation was waiting for its answer.
C12_Witness ==
    /\ modal = "closeConfirm"
    /\ Handled(last, "WM_TIMER", TIMER_OPEN_BROWSER)
    /\ OpensOf(last.calls) = <<"http://localhost:3000">>
    /\ phase = "running"

\* the identifiers of the three start-one buttons
StartOneIds == {ID_START_BACKEND, ID_START_FRONTEND, ID_START_SYSTEM}

\* the step is a launch: a start-all that found the marker file, or a start-one
IsLaunch(step) ==
    \/ StartAllWithMarker(step)
    \/ (step.msg = "WM_COMMAND" /\ step.wParam \in StartOneIds)

\* the places of the calls of op in the calls of a step
PlacesOf(calls, op) == {i \in DOMAIN calls : calls[i].op = op}

\* C13: a launch makes exactly one launch attempt and logs exactly two
\* lines, the starting line before the attempt and one outcome line after
\* it: a success line if ShellExecuteEx returned true, an error line if it
\* returned false.  A failed launch starts no process and arms no timer, so
\* nothing is left that would try again; a failed start-all in particular
\* leaves the browser timer as it was.
C13_OneAttemptOneOutcomeLine ==
    [][ IsLaunch(last')
        => LET calls == last'.calls
               attempts == CallsOf(calls, "ShellExecuteEx")
               logged == LoggedBy(calls)
           IN  /\ Len(attempts) = 1
               /\ Len(logged) = 2
               /\ logged[1][1] \in {"(rocket)", "(wrench)"}
               /\ logged[2][1] = (IF attempts[1].ok THEN "(check)" ELSE "(cross)")
               /\ Len(ErrorsLoggedBy(calls)) = (IF attempts[1].ok THEN 0 ELSE 1)
               /\ \A a \in PlacesOf(calls, "ShellExecuteEx") :
                      /\ \E i \in PlacesOf(calls, "AddLog") : i < a
                      /\ \E i \in PlacesOf(calls, "AddLog") : i > a
               /\ LineCount(logText') = LineCount(logText) + 2
               /\ CallsOf(calls, "MessageBox") = <<>>
               /\ ~attempts[1].ok
                  => /\ children' = children
                     /\ timers' = timers
                     /\ CallsOf(calls, "SetTimer") = <<>>
               /\ attempts[1].ok => Cardinality(children') = Cardinality(children) + 1
      ]_vars

\* C13 witness: a start-all found the marker file, its launch failed, the
\* error line is the last line of the log and no browser timer is armed.
C13_Witness ==
    /\ StartAllWithMarker(last)
    /\ ~CallsOf(last.calls, "ShellExecuteEx")[1].ok
    /\ SplitLines(logText)[LineCount(logText)][11] = "(cross)"
    /\ TIMER_OPEN_BROWSER \notin DOMAIN timers
    /\ children = {}

\* C14: a status poll cycle, whatever its three probes return, calls nothing
\* but CheckPort and InvalidateRect: it logs nothing, opens no dialog,
\* launches and opens nothing, and sets or kills no timer (the browser timer
\* stays as it was, the status timer keeps its period).  It changes the
\* three flags, to the results of the probes, and redraws the indicators.
C14_PollOnlyWritesFlags ==
    [][ Handled(last', "WM_TIMER", TIMER_STATUS_UPDATE)
        => LET calls == last'.calls
           IN  /\ \A i \in DOMAIN calls : calls[i].op \in {"CheckPort", "InvalidateRect"}
               /\ logText' = logText
               /\ modal' = modal
               /\ phase' = phase
               /\ children' = children /\ processes' = processes
               /\ terminated' = terminated
               /\ quitMsg' = quitMsg /\ exitCode' = exitCode
               /\ DOMAIN timers' = DOMAIN timers
               /\ \A id \in DOMAIN timers : timers'[id].elapse = timers[id].elapse
               /\ TIMER_OPEN_BROWSER \in DOMAIN timers
                  => timers'[TIMER_OPEN_BROWSER] = timers[TIMER_OPEN_BROWSER]
               /\ serviceStatus' =
                      [s \in Services |->
                          CASE s = "backend" -> CallsOf(calls, "CheckPort")[1].ret
                            [] s = "frontend" -> CallsOf(calls, "CheckPort")[2].ret
                            [] s = "system" -> CallsOf(calls, "CheckPort")[3].ret]
               /\ {c.control : c \in {calls[i] : i \in PlacesOf(calls, "InvalidateRect")}}
                      = {"hStatusBackend", "hStatusFrontend", "hStatusSystem"}
      ]_vars

\* C14 witness: a poll cycle whose three probes all failed has run while the
\* browser timer of a start-all was pending; the timer is still pending.
C14_Witness ==
    /\ Handled(last, "WM_TIMER", TIMER_STATUS_UPDATE)
    /\ \A i \in 1 .. 3 : ~last.calls[i].ret
    /\ \A s \in Services : ~serviceStatus[s]
    /\ TIMER_OPEN_BROWSER \in DOMAIN timers
    /\ timers[TIMER_OPEN_BROWSER].left = 5000
    /\ modal = "none"

\* C15: as long as no poll cycle has run, the three flags are false, as the
\* constructor set them, whatever has been handled since, and an indicator
\* that is drawn is drawn red.
C15_RedUntilFirstPoll ==
    DOMAIN lastProbe = {}
    => /\ \A s \in Services : serviceStatus[s] = FALSE
       /\ \A ind \in Indicators :
              Handled(last, "WM_CTLCOLORSTATIC", ind[1])
              => CallsOf(last.calls, "SetTextColor") =
                     <<[op |-> "SetTextColor", rgb |-> <<244, 67, 54>>]>>

\* C15 witness: the backend indicator is drawn red after a start-backend
\* whose launch succeeded; the status timer has run out but no poll cycle
\* has run yet.
C15_Witness ==
    /\ Handled(last, "WM_CTLCOLORSTATIC", "hStatusBackend")
    /\ CallsOf(last.calls, "SetTextColor")[1].rgb = <<244, 67, 54>>
    /\ DOMAIN lastProbe = {}
    /\ \E c \in children : c.file = "start_backend.bat"
    /\ TIMER_STATUS_UPDATE \in DOMAIN timers
    /\ timers[TIMER_STATUS_UPDATE].left = 0

\* the lines of the log that report a launched start-all, and those that
\* report an opened URL
StartAllsLogged(text) == Len(SelectSeq(text, LAMBDA c : c = " Sistema completo iniciado"))
OpensLogged(text) == Len(SelectSeq(text, LAMBDA c : c = " Abierto: "))
\* the browser-opens that are pending
PendingOpens(t) == IF TIMER_OPEN_BROWSER \in DOMAIN t THEN 1 ELSE 0

\* C16: a start-all whose launch succeeds while the browser timer is
\* pending sets the same timer again: the window has the timers it had, the
\* browser timer has its full 8000 ms left whatever it had left before, and
\* nothing is opened by that step.  The timer is handled only when those
\* 8000 ms have run out, and handling it opens the frontend once and leaves
\* no browser timer.  So, no link button being pressed, the browser-opens
\* made and pending never outnumber the launched start-alls, and two
\* start-alls of which the second came while the first was pending lead to
\* one browser-open.
C16_RearmedNotDoubled ==
    [][ /\ (StartAllLaunched(last') /\ TIMER_OPEN_BROWSER \in DOMAIN timers)
           => /\ DOMAIN timers' = DOMAIN timers
              /\ timers'[TIMER_OPEN_BROWSER] = [elapse |-> 8000, left |-> 8000]
              /\ \A id \in DOMAIN timers \ {TIMER_OPEN_BROWSER} : timers'[id] = timers[id]
              /\ OpensOf(last'.calls) = <<>>
              /\ OpensLogged(logText') = OpensLogged(logText)
        /\ Handled(last', "WM_TIMER", TIMER_OPEN_BROWSER)
           => /\ TIMER_OPEN_BROWSER \in DOMAIN timers
              /\ timers[TIMER_OPEN_BROWSER].left = 0
              /\ OpensOf(last'.calls) = <<"http://localhost:3000">>
              /\ OpensLogged(logText') = OpensLogged(logText) + 1
              /\ PendingOpens(timers') = 0
        /\ (OpensOf(last'.calls) # <<>> /\ last'.msg # "WM_COMMAND")
           => Handled(last', "WM_TIMER", TIMER_OPEN_BROWSER)
        /\ OpensLogged(logText') + PendingOpens(timers') <= StartAllsLogged(logText')
      ]_vars

\* C16 witness: two start-alls were launched, the second while the browser
\* timer of the first was pending, and the one browser-open they led to has
\* just been made: the log is launcher line, starting, started, starting,
\* started, opened.
C16_Witness ==
    /\ Handled(last, "WM_TIMER", TIMER_OPEN_BROWSER)
    /\ LineCount(logText) = 6
    /\ StartAllsLogged(logText) = 2
    /\ OpensLogged(logText) = 1
    /\ SplitLines(logText)[3][12] = " Sistema completo iniciado"
    /\ SplitLines(logText)[5][12] = " Sistema completo iniciado"
    /\ SplitLines(logText)[6][12] = " Abierto: "
    /\ PendingOpens(timers) = 0
    /\ Cardinality(children) = 2

\* C17 (as claimed): a stop-all leaves the timers as they are, and the
\* browser timer goes away only by being handled.
C17_OnlyFiringCancelsBrowserOpen ==
    [][ /\ Handled(last', "WM_COMMAND", ID_STOP_ALL) => timers' = timers
        /\ (TIMER_OPEN_BROWSER \in DOMAIN timers /\ TIMER_OPEN_BROWSER \notin DOMAIN timers')
           => Handled(last', "WM_TIMER", TIMER_OPEN_BROWSER)
      ]_vars

\* C17 (amended): a stop-all sets and kills no timer and leaves the timers
\* as they are, so a pending browser-open is still due at the time it was
\* due before.  The browser timer goes away only by being handled, which
\* opens http://localhost:3000, or with the window when a close is confirmed;
\* until then its time left only goes down, unless a launched start-all
\* sets it again.
C17_StopAllKeepsBrowserOpen ==
    [][ /\ Handled(last', "WM_COMMAND", ID_STOP_ALL)
           => /\ timers' = timers
              /\ CallsOf(last'.calls, "KillTimer") = <<>>
              /\ CallsOf(last'.calls, "SetTimer") = <<>>
        /\ (TIMER_OPEN_BROWSER \in DOMAIN timers /\ TIMER_OPEN_BROWSER \notin DOMAIN timers')
           => \/ /\ Handled(last', "WM_TIMER", TIMER_OPEN_BROWSER)
                 /\ OpensOf(last'.calls) = <<"http://localhost:3000">>
              \/ /\ Len(CallsOf(last'.calls, "DestroyWindow")) = 1
                 /\ last'.calls[1] = [op |-> "MessageBoxReturn", ret |-> "IDYES"]
                 /\ phase' = "quitPosted"
        /\ (TIMER_OPEN_BROWSER \in DOMAIN timers /\ TIMER_OPEN_BROWSER \in DOMAIN timers')
           => \/ timers'[TIMER_OPEN_BROWSER].left <= timers[TIMER_OPEN_BROWSER].left
              \/ StartAllLaunched(last')
      ]_vars

\* C17 witness: a start-all was launched, a stop-all was handled while the
\* browser timer was pending, and the timer has then been handled: the log
\* is launcher line, starting, started, stopping, stopped, opened.
C17_Witness ==
    /\ Handled(last, "WM_TIMER", TIMER_OPEN_BROWSER)
    /\ OpensOf(last.calls) = <<"http://localhost:3000">>
    /\ LineCount(logText) = 6
    /\ SplitLines(logText)[3][12] = " Sistema completo iniciado"
    /\ SplitLines(logText)[4][12] = " Deteniendo todos los servicios..."
    /\ SplitLines(logText)[5][12] = " Servicios detenidos"
    /\ SplitLines(logText)[6][12] = " Abierto: "
    /\ SplitLines(logText)[6][13] = "http://localhost:3000"

\* C18: a stop-all logs exactly two lines whatever its three ShellExecuteEx
\* calls return: the stopping line before the first kill command and the
\* services-stopped line, a success line, after the last.  It logs no error
\* line and opens no dialog.
C18_StopAllAlwaysReportsSuccess ==
    [][ Handled(last', "WM_COMMAND", ID_STOP_ALL)
        => LET calls == last'.calls
               lines == SplitLines(AddedText(logText, logText'))
           IN  /\ PlacesOf(calls, "AddLog") = {1, Len(calls)}
               /\ calls[1].message = <<"(stop)", " Deteniendo todos los servicios...">>
               /\ calls[Len(calls)].message = <<"(check)", " Servicios detenidos">>
               /\ ErrorsLoggedBy(calls) = <<>>
               /\ KeepsText(logText, logText')
               /\ Len(lines) = 2
               /\ IsLogLine(lines[1], <<"(stop)", " Deteniendo todos los servicios...">>)
               /\ IsLogLine(lines[2], <<"(check)", " Servicios detenidos">>)
               /\ CallsOf(calls, "MessageBox") = <<>>
               /\ modal' = modal
      ]_vars

\* C18 witness: a stop-all none of whose three kill commands could be
\* launched has logged the services-stopped line.
C18_Witness ==
    /\ Handled(last, "WM_COMMAND", ID_STOP_ALL)
    /\ \A i \in 1 .. 3 : ~CallsOf(last.calls, "ShellExecuteEx")[i].ok
    /\ SplitLines(logText)[LineCount(logText)][12] = " Servicios detenidos"
    /\ modal = "none"

\* C19: a start-one does not look for the marker file: it makes its one
\* launch attempt, of its own script, without a GetFileAttributes call and
\* without a dialog.  It sets and kills no timer and leaves the timers,
\* the browser timer among them, as they are.  Only a start-all looks for
\* the marker file, and only a start-all sets the browser timer.
C19_StartOneHasNoMarkerCheckNoBrowserTimer ==
    [][ /\ (last'.msg = "WM_COMMAND" /\ last'.wParam \in StartOneIds)
           => /\ CallsOf(last'.calls, "GetFileAttributes") = <<>>
              /\ Len(CallsOf(last'.calls, "ShellExecuteEx")) = 1
              /\ LaunchesOf(last'.calls)[1] =
                     (CASE last'.wParam = ID_START_BACKEND -> "start_backend.bat"
                        [] last'.wParam = ID_START_FRONTEND -> "start_frontend.bat"
                        [] last'.wParam = ID_START_SYSTEM -> "main_etiquetadora.py")
              /\ CallsOf(last'.calls, "SetTimer") = <<>>
              /\ CallsOf(last'.calls, "KillTimer") = <<>>
              /\ timers' = timers
              /\ CallsOf(last'.calls, "MessageBox") = <<>>
              /\ modal' = modal
        /\ CallsOf(last'.calls, "GetFileAttributes") # <<>>
           => Handled(last', "WM_COMMAND", ID_START_ALL)
        /\ (\E i \in DOMAIN last'.calls :
                last'.calls[i] = [op |-> "SetTimer", id |-> 3001, ms |-> 8000])
           => Handled(last', "WM_COMMAND", ID_START_ALL)
      ]_vars

\* C19 witness: a start-all did not find the marker file and launched
\* nothing; after its dialog a start-backend was launched, and no browser
\* timer is armed.
C19_Witness ==
    /\ Handled(last, "WM_COMMAND", ID_START_BACKEND)
    /\ CallsOf(last.calls, "ShellExecuteEx")[1].ok
    /\ LineCount(logText) = 5
    /\ SplitLines(logText)[3][12] = " Error: No se encuentra main_etiquetadora.py"
    /\ SplitLines(logText)[5][11] = "(check)"
    /\ children = {[hProcess |-> 1, file |-> "start_backend.bat"]}
    /\ TIMER_OPEN_BROWSER \notin DOMAIN timers

====
